---- MODULE Spec2Model ----
(***************************************************************************)
(* Model of the two Streamlit questionnaires of the repository:            *)
(*   src/ai-risk-assessment-2.py    (risk variant)                         *)
(*   src/rai-controls-assessment.py (readiness variant)                    *)
(* Both share the same session state, the same form and the same           *)
(* navigation code; they differ in the scoring functions.                  *)
(*                                                                         *)
(* A step of the model is one user event together with the script run(s)   *)
(* it triggers (Streamlit re-executes main() after every widget event and  *)
(* after every st.rerun()).                                                *)
(*                                                                         *)
(* Python dict keys f"{i}_{j}" are modelled as the pair <<i, j>>.          *)
(* Python floats are modelled as exact rationals [num, den] with den > 0;  *)
(* the float value is the rational rounded (at most twice) to a double,    *)
(* which never crosses one of the thresholds 25, 50, 60, 75 for the        *)
(* ratios that occur here.  Where the last bit of a percentage matters,    *)
(* risk_percentage_float and readiness_percentage_float give the double    *)
(* itself.                                                                 *)
(***************************************************************************)
EXTENDS Integers, Sequences, FiniteSets, TLC

VARIABLES
    responses,            \* st.session_state.responses : key -> risk weight
    current_category,     \* st.session_state.current_category
    assessment_complete,  \* st.session_state.assessment_complete
    view,                 \* what display_results computed in the last run
    event,                \* the user event handled by the last step
    input,                \* the argument of that event, << >> when it has none;
                          \* for a selection <<question, option chosen, option
                          \* the radio showed before>>
    radio_identity,       \* what identifies a radio across runs in the
                          \* Streamlit release in use (the repository pins
                          \* none): its key, or its key and index argument
    radio_index           \* question -> index argument with which the radio
                          \* on the page was built

vars == <<responses, current_category, assessment_complete, view, event, input,
          radio_identity, radio_index>>

session == <<responses, current_category, assessment_complete>>

(***************************************************************************)
(* Schema (ASSESSMENT_DATA)                                                *)
(***************************************************************************)

\* Number of categories of the schema that are modelled (the schema of both
\* files has five; the navigation code only distinguishes first, inner and
\* last category).
NumCategories == 3

\* Every category has two questions (and the charts hard-code range(2)).
QuestionsPerCategory == 2

\* Every question has three options.
NumOptions == 3

Categories == 0 .. (NumCategories - 1)

Questions == 0 .. (QuestionsPerCategory - 1)

Options == 0 .. (NumOptions - 1)

\* Mutant: the options are listed from the largest weight to the smallest.
OptionRisks_Reversed == <<2, 1, 0>>

\* The "risk" fields of a question's options, in option order.
OptionRisks == <<0, 1, 2>>

\* Mutant: the weights are numbered from 1.
OptionRisk_OneBased(c, q, k) == k + 1

\* question['options'][k]['risk']
OptionRisk(c, q, k) == OptionRisks[k + 1]

\* len(ASSESSMENT_DATA[current_cat]['questions'])
NumQuestions(c) == QuestionsPerCategory

\* question_key = f"{category}_{q_idx}"
question_key(c, q) == <<c, q>>

\* sum(len(cat_data['questions']) for cat_data in ASSESSMENT_DATA.values())
total_questions == NumCategories * QuestionsPerCategory

\* Python None as the value of a radio widget / of the index argument.
NoSelection == -1

(***************************************************************************)
(* Dict helpers                                                            *)
(***************************************************************************)

EmptyResponses == [k \in {} |-> 0]

\* responses.get(key, default)
Get(resp, key, default) == IF key \in DOMAIN resp THEN resp[key] ELSE default

\* len(responses)
Len_(resp) == Cardinality(DOMAIN resp)

RECURSIVE SumOver(_, _)
SumOver(f, S) ==
    IF S = {} THEN 0
    ELSE LET k == CHOOSE x \in S : TRUE
         IN  f[k] + SumOver(f, S \ {k})

\* sum(responses.values())
SumValues(resp) == SumOver(resp, DOMAIN resp)

(***************************************************************************)
(* Rationals standing for the floats of the scoring code                   *)
(***************************************************************************)

Rat(n, d) == [num |-> n, den |-> d]

RatLeq(a, b) == a.num * b.den <= b.num * a.den

RatEq(a, b) == a.num * b.den = b.num * a.den

RatInt(n) == Rat(n, 1)

\* (2 - x) / 2 * 100 for a rational x
Inverted(x) == Rat((2 * x.den - x.num) * 100, x.den * 2)

(***************************************************************************)
(* The percentages as Python floats                                        *)
(***************************************************************************)

\* Rat above is the exact value of an expression.  The code computes it in
\* Python floats: IEEE 754 binary64, every operation rounded to the nearest
\* representable value, ties to the even significand.  A positive float is
\* [e |-> exponent, m |-> the bits of its significand, the leading 1
\* first]: the value m[1].m[2]m[3]... * 2^e.  The numbers that occur are
\* far from the limits of the exponent.
SignificandBits == 53

FloatZero == [e |-> 0, m |-> [i \in 1 .. SignificandBits |-> 0]]

\* a / b scaled by a power of two into [1, 2): a / b = num / den * 2^e.
RECURSIVE normalised(_, _)
normalised(a, b) ==
    IF a >= 2 * b
    THEN LET r == normalised(a, 2 * b) IN [r EXCEPT !.e = r.e + 1]
    ELSE IF a < b
         THEN LET r == normalised(2 * a, b) IN [r EXCEPT !.e = r.e - 1]
         ELSE [e |-> 0, num |-> a, den |-> b]

\* The first n binary digits of num / den, for num < 2 * den, starting with
\* the digit of 2^0.
RECURSIVE quotient_bits(_, _, _)
quotient_bits(num, den, n) ==
    IF n = 0 THEN << >>
    ELSE IF num >= den
         THEN <<1>> \o quotient_bits(2 * (num - den), den, n - 1)
         ELSE <<0>> \o quotient_bits(2 * num, den, n - 1)

\* What is left of num / den after its first n digits, in units of the
\* (n+1)-th digit times den: the part cut off is more than, exactly or less
\* than half a unit in the last place as this is more than, equal to or less
\* than den.
RECURSIVE quotient_rest(_, _, _)
quotient_rest(num, den, n) ==
    IF n = 0 THEN num
    ELSE IF num >= den
         THEN quotient_rest(2 * (num - den), den, n - 1)
         ELSE quotient_rest(2 * num, den, n - 1)

\* The significand m of exponent e, moved up by one unit in the last place
\* when up holds.
rounded(e, m, up) ==
    IF ~up
    THEN [e |-> e, m |-> [i \in 1 .. SignificandBits |-> m[i]]]
    ELSE LET zeros == {i \in 1 .. SignificandBits : m[i] = 0}
         IN  IF zeros = {}
             THEN [e |-> e + 1,
                   m |-> [i \in 1 .. SignificandBits |-> IF i = 1 THEN 1 ELSE 0]]
             ELSE LET last == CHOOSE i \in zeros : \A j \in zeros : j <= i
                  IN  [e |-> e,
                       m |-> [i \in 1 .. SignificandBits |->
                                 IF i < last THEN m[i]
                                 ELSE IF i = last THEN 1 ELSE 0]]

\* a / b for integers a >= 0 and b > 0: Python's true division, the float
\* nearest to the quotient.
true_divide(a, b) ==
    IF a = 0 THEN FloatZero
    ELSE LET n == normalised(a, b)
             m == quotient_bits(n.num, n.den, SignificandBits)
             rest == quotient_rest(n.num, n.den, SignificandBits)
         IN  rounded(n.e, m,
                     \/ rest > n.den
                     \/ rest = n.den /\ m[SignificandBits] = 1)

\* The number of binary digits of a positive integer.
RECURSIVE bit_length(_)
bit_length(k) == IF k = 0 THEN 0 ELSE 1 + bit_length(k \div 2)

\* The digits i, i-1, ..., 1 of x + y + c * 2^(Len(x) - i) for two integers
\* written on the same number of bits, most significant first.
RECURSIVE add_from(_, _, _, _)
add_from(x, y, i, c) ==
    IF i = 0 THEN << >>
    ELSE IF x[i] + y[i] + c < 2
         THEN add_from(x, y, i - 1, 0) \o <<x[i] + y[i] + c>>
         ELSE add_from(x, y, i - 1, 1) \o <<x[i] + y[i] + c - 2>>

\* x + y, the sum fitting in the number of bits of x and y.
add_bits(x, y) == add_from(x, y, Len(x), 0)

\* x * k for an integer x written on some number of bits and an integer
\* k >= 0, the product fitting in that number of bits.
RECURSIVE times_bits(_, _)
times_bits(x, k) ==
    IF k = 0 THEN [i \in 1 .. Len(x) |-> 0]
    ELSE LET twice == Tail(times_bits(x, k \div 2)) \o <<0>>
         IN  IF k % 2 = 1 THEN add_bits(twice, x) ELSE twice

\* The number of zeros before the first 1 of p.
RECURSIVE leading_zeros(_)
leading_zeros(p) == IF Head(p) = 1 THEN 0 ELSE 1 + leading_zeros(Tail(p))

\* x * k for a float x and an integer k > 0: the float nearest to the
\* product.
float_times(x, k) ==
    IF x = FloatZero THEN FloatZero
    ELSE LET width == SignificandBits + bit_length(k)
             product == times_bits([i \in 1 .. bit_length(k) |-> 0] \o x.m, k)
             first == leading_zeros(product) + 1
             kept == SubSeq(product, first, first + SignificandBits - 1)
             cut == SubSeq(product, first + SignificandBits, width)
             guard == cut # << >> /\ Head(cut) = 1
             sticky == \E i \in 2 .. Len(cut) : cut[i] = 1
         IN  rounded(x.e + (width - first) - (SignificandBits - 1), kept,
                     guard /\ (sticky \/ kept[SignificandBits] = 1))

\* risk_percentage = (total_risk / max_possible_risk) * 100
risk_percentage_float(resp) ==
    float_times(true_divide(SumValues(resp), Len_(resp) * 2), 100)

\* readiness_percentage =
\*     ((max_possible_score - total_score) / max_possible_score) * 100
readiness_percentage_float(resp) ==
    float_times(true_divide(Len_(resp) * 2 - SumValues(resp), Len_(resp) * 2), 100)

(***************************************************************************)
(* Scoring engine and classifier, risk variant                             *)
(***************************************************************************)

\* The value None returned for an empty dict.
None == [level |-> "NONE"]

\* Mutant: the denominator counts every question of the schema.
calculate_risk_level_AllQuestions(resp) ==
    IF DOMAIN resp = {} THEN None
    ELSE LET total_risk == SumValues(resp)
             max_possible_risk == total_questions * 2
             risk_percentage == Rat(total_risk * 100, max_possible_risk)
         IN  IF RatLeq(risk_percentage, RatInt(25))
             THEN [level |-> "LOW", color |-> "#10b981", percentage |-> risk_percentage]
             ELSE IF RatLeq(risk_percentage, RatInt(60))
             THEN [level |-> "MEDIUM", color |-> "#f59e0b", percentage |-> risk_percentage]
             ELSE [level |-> "HIGH", color |-> "#ef4444", percentage |-> risk_percentage]

\* Mutant: the emptiness test is missing (the division is by zero).
calculate_risk_level_NoEmptyTest(resp) ==
    LET total_risk == SumValues(resp)
        max_possible_risk == Len_(resp) * 2
        risk_percentage == Rat(total_risk * 100, max_possible_risk)
    IN  IF RatLeq(risk_percentage, RatInt(25))
        THEN [level |-> "LOW", color |-> "#10b981", percentage |-> risk_percentage]
        ELSE IF RatLeq(risk_percentage, RatInt(60))
        THEN [level |-> "MEDIUM", color |-> "#f59e0b", percentage |-> risk_percentage]
        ELSE [level |-> "HIGH", color |-> "#ef4444", percentage |-> risk_percentage]

\* Mutant: the maximum is one point per answer instead of two.
calculate_risk_level_OnePoint(resp) ==
    IF DOMAIN resp = {} THEN None
    ELSE LET total_risk == SumValues(resp)
             max_possible_risk == Len_(resp)
             risk_percentage == Rat(total_risk * 100, max_possible_risk)
         IN  IF RatLeq(risk_percentage, RatInt(25))
             THEN [level |-> "LOW", color |-> "#10b981", percentage |-> risk_percentage]
             ELSE IF RatLeq(risk_percentage, RatInt(60))
             THEN [level |-> "MEDIUM", color |-> "#f59e0b", percentage |-> risk_percentage]
             ELSE [level |-> "HIGH", color |-> "#ef4444", percentage |-> risk_percentage]

\* Mutant: the lower threshold is exclusive.
classify_risk_StrictLow(risk_percentage) ==
    IF ~RatLeq(RatInt(25), risk_percentage)
    THEN [level |-> "LOW", color |-> "#10b981", percentage |-> risk_percentage]
    ELSE IF RatLeq(risk_percentage, RatInt(60))
    THEN [level |-> "MEDIUM", color |-> "#f59e0b", percentage |-> risk_percentage]
    ELSE [level |-> "HIGH", color |-> "#ef4444", percentage |-> risk_percentage]

\* Mutant: the low threshold is 20.
classify_risk_LowUpToTwenty(risk_percentage) ==
    IF RatLeq(risk_percentage, RatInt(20))
    THEN [level |-> "LOW", color |-> "#10b981", percentage |-> risk_percentage]
    ELSE IF RatLeq(risk_percentage, RatInt(60))
    THEN [level |-> "MEDIUM", color |-> "#f59e0b", percentage |-> risk_percentage]
    ELSE [level |-> "HIGH", color |-> "#ef4444", percentage |-> risk_percentage]

\* The if / elif / else of calculate_risk_level on the computed percentage.
classify_risk(risk_percentage) ==
    IF RatLeq(risk_percentage, RatInt(25))
    THEN [level |-> "LOW", color |-> "#10b981", percentage |-> risk_percentage]
    ELSE IF RatLeq(risk_percentage, RatInt(60))
    THEN [level |-> "MEDIUM", color |-> "#f59e0b", percentage |-> risk_percentage]
    ELSE [level |-> "HIGH", color |-> "#ef4444", percentage |-> risk_percentage]

calculate_risk_level(resp) ==
    IF DOMAIN resp = {} THEN None
    ELSE LET total_risk == SumValues(resp)
             max_possible_risk == Len_(resp) * 2
             risk_percentage == Rat(total_risk * 100, max_possible_risk)
         IN  classify_risk(risk_percentage)

\* The charts read two answers per category: range(2).
ChartQuestions == 2

\* category_responses = [responses.get(f"{i}_{j}", 0) for j in range(2)]
category_responses(resp, i) ==
    [j \in 1 .. ChartQuestions |-> Get(resp, question_key(i, j - 1), 0)]

RECURSIVE SumSeq(_)
SumSeq(s) == IF s = << >> THEN 0 ELSE Head(s) + SumSeq(Tail(s))

\* Mutant: the average is taken over the answered questions only.
avg_risk_AnsweredOnly(resp, i) ==
    LET answered == {j \in 0 .. (ChartQuestions - 1) : question_key(i, j) \in DOMAIN resp}
    IN  IF answered # {}
        THEN Rat(SumSeq(category_responses(resp, i)), Cardinality(answered))
        ELSE RatInt(0)

\* Mutant: the sum of the category's answers is not divided by their number.
avg_risk_NotDivided(resp, i) == RatInt(SumSeq(category_responses(resp, i)))

\* avg_risk = sum(category_responses) / len(category_responses) if category_responses else 0
avg_risk(resp, i) ==
    LET cr == category_responses(resp, i)
    IN  IF Len(cr) > 0 THEN Rat(SumSeq(cr), Len(cr)) ELSE RatInt(0)

\* create_radar_chart: category_risks and performance_scores, per category.
create_radar_chart(resp) ==
    [n \in 1 .. NumCategories |->
        [category_risk |-> avg_risk(resp, n - 1),
         performance_score |-> Inverted(avg_risk(resp, n - 1))]]

\* create_classification_levels_chart of the risk variant.
create_classification_levels_chart(resp) ==
    [n \in 1 .. NumCategories |->
        LET a == avg_risk(resp, n - 1)
        IN  IF RatLeq(a, Rat(1, 2))
            THEN [level |-> "Low", position |-> 25, risk_score |-> a]
            ELSE IF RatLeq(a, Rat(3, 2))
            THEN [level |-> "Medium", position |-> 50, risk_score |-> a]
            ELSE [level |-> "High", position |-> 75, risk_score |-> a]]

(***************************************************************************)
(* Scoring engine and classifier, readiness variant                        *)
(***************************************************************************)

\* Mutant: the score is not inverted (the risk share is reported).
calculate_readiness_level_NotInverted(resp) ==
    IF DOMAIN resp = {} THEN None
    ELSE LET total_score == SumValues(resp)
             max_possible_score == Len_(resp) * 2
             readiness_percentage == Rat(total_score * 100, max_possible_score)
         IN  IF RatLeq(RatInt(75), readiness_percentage)
             THEN [level |-> "ADVANCED", color |-> "#10b981", percentage |-> readiness_percentage]
             ELSE IF RatLeq(RatInt(50), readiness_percentage)
             THEN [level |-> "DEVELOPING", color |-> "#f59e0b", percentage |-> readiness_percentage]
             ELSE [level |-> "BASIC", color |-> "#ef4444", percentage |-> readiness_percentage]

\* Mutant: the middle threshold is exclusive.
classify_readiness_StrictDeveloping(readiness_percentage) ==
    IF RatLeq(RatInt(75), readiness_percentage)
    THEN [level |-> "ADVANCED", color |-> "#10b981", percentage |-> readiness_percentage]
    ELSE IF ~RatLeq(readiness_percentage, RatInt(50))
    THEN [level |-> "DEVELOPING", color |-> "#f59e0b", percentage |-> readiness_percentage]
    ELSE [level |-> "BASIC", color |-> "#ef4444", percentage |-> readiness_percentage]

\* Mutant: the two lower levels are exchanged.
classify_readiness_LevelsSwapped(readiness_percentage) ==
    IF RatLeq(RatInt(75), readiness_percentage)
    THEN [level |-> "ADVANCED", color |-> "#10b981", percentage |-> readiness_percentage]
    ELSE IF RatLeq(RatInt(50), readiness_percentage)
    THEN [level |-> "BASIC", color |-> "#ef4444", percentage |-> readiness_percentage]
    ELSE [level |-> "DEVELOPING", color |-> "#f59e0b", percentage |-> readiness_percentage]

\* The if / elif / else of calculate_readiness_level on the computed percentage.
classify_readiness(readiness_percentage) ==
    IF RatLeq(RatInt(75), readiness_percentage)
    THEN [level |-> "ADVANCED", color |-> "#10b981", percentage |-> readiness_percentage]
    ELSE IF RatLeq(RatInt(50), readiness_percentage)
    THEN [level |-> "DEVELOPING", color |-> "#f59e0b", percentage |-> readiness_percentage]
    ELSE [level |-> "BASIC", color |-> "#ef4444", percentage |-> readiness_percentage]

calculate_readiness_level(resp) ==
    IF DOMAIN resp = {} THEN None
    ELSE LET total_score == SumValues(resp)
             max_possible_score == Len_(resp) * 2
             readiness_percentage ==
                 Rat((max_possible_score - total_score) * 100, max_possible_score)
         IN  classify_readiness(readiness_percentage)

\* create_classification_levels_chart of the readiness variant.
rai_create_classification_levels_chart(resp) ==
    [n \in 1 .. NumCategories |->
        LET avg_score == avg_risk(resp, n - 1)
            readiness_score == Inverted(avg_score)
        IN  IF RatLeq(RatInt(75), readiness_score)
            THEN [level |-> "Advanced", position |-> 75, readiness_score |-> readiness_score]
            ELSE IF RatLeq(RatInt(50), readiness_score)
            THEN [level |-> "Developing", position |-> 50, readiness_score |-> readiness_score]
            ELSE [level |-> "Basic", position |-> 25, readiness_score |-> readiness_score]]

(***************************************************************************)
(* Results view                                                            *)
(***************************************************************************)

\* Nothing computed: the form is displayed, not the results.
NotShown == [level |-> "NOT_SHOWN"]

NoView == [risk |-> NotShown, readiness |-> NotShown]

\* len(RECOMMENDATIONS)
NumRecommendations == 6

\* if risk_result['level'] in ['MEDIUM', 'HIGH']: every entry of
\* RECOMMENDATIONS is shown (by its number), otherwise none.
recommendations_shown(risk_result) ==
    IF risk_result.level \in {"MEDIUM", "HIGH"}
    THEN 1 .. NumRecommendations
    ELSE {}

\* The priority guidance shown below the recommendations ("" when the block
\* is skipped).
priority_text(risk_result) ==
    IF risk_result.level \in {"MEDIUM", "HIGH"}
    THEN IF risk_result.level = "HIGH" THEN "High Risk" ELSE "Medium Risk"
    ELSE ""

\* display_results of the risk variant: the overall result and, unless the
\* function returns early on "No assessment data available", the charts and
\* the recommendations.
display_results(resp) ==
    LET risk_result == calculate_risk_level(resp)
    IN  IF risk_result = None
        THEN [result |-> None, radar |-> << >>, category_data |-> << >>,
              recommendations |-> {}, priority |-> ""]
        ELSE [result |-> risk_result,
              radar |-> create_radar_chart(resp),
              category_data |-> create_classification_levels_chart(resp),
              recommendations |-> recommendations_shown(risk_result),
              priority |-> priority_text(risk_result)]

\* basic_tenets, each shown with its entry of immediate_actions (the table
\* has an entry for every tenet): the tenets, by position in category_data.
immediate_tenets(category_data) ==
    {n \in DOMAIN category_data : category_data[n].level = "Basic"}

\* Mutant: every tenet is listed for improvement.
improvement_needed_All(category_data) == DOMAIN category_data

\* improvement_needed, each shown with its entry of tenet_recommendations
\* (the table has an entry for every tenet), inside
\* "if developing_tenets or basic_tenets".
improvement_needed(category_data) ==
    LET developing_tenets == {n \in DOMAIN category_data : category_data[n].level = "Developing"}
        basic_tenets == {n \in DOMAIN category_data : category_data[n].level = "Basic"}
    IN  IF developing_tenets # {} \/ basic_tenets # {}
        THEN {n \in DOMAIN category_data : category_data[n].level \in {"Developing", "Basic"}}
        ELSE {}

\* if readiness_result['level'] in ['DEVELOPING', 'BASIC']: the roadmap
roadmap_shown(readiness_result) == readiness_result.level \in {"DEVELOPING", "BASIC"}

\* display_results of the readiness variant.
rai_display_results(resp) ==
    LET readiness_result == calculate_readiness_level(resp)
        category_data == rai_create_classification_levels_chart(resp)
    IN  IF readiness_result = None
        THEN [result |-> None, radar |-> << >>, category_data |-> << >>,
              immediate |-> {}, recommended |-> {}, roadmap |-> FALSE]
        ELSE [result |-> readiness_result,
              radar |-> create_radar_chart(resp),
              category_data |-> category_data,
              immediate |-> immediate_tenets(category_data),
              recommended |-> improvement_needed(category_data),
              roadmap |-> roadmap_shown(readiness_result)]

(***************************************************************************)
(* Session state and the assessment form                                   *)
(***************************************************************************)

\* initialize_session_state on a fresh (or cleared) st.session_state
initialize_session_state ==
    /\ responses = EmptyResponses
    /\ current_category = 0
    /\ assessment_complete = FALSE

\* The widget identities of the Streamlit releases: by key only, or by key
\* and the arguments of st.radio, index included.
RadioIdentities == {"key", "key_index"}

\* index=st.session_state.responses.get(question_key, None), for every radio
\* of category c in a run that starts with resp.
radio_indexes(resp, c) ==
    [q \in 0 .. (NumQuestions(c) - 1) |-> Get(resp, question_key(c, q), NoSelection)]

\* One execution of the question loop of display_assessment_form for category
\* c.  click is <<q, k>> when the run was triggered by the user choosing
\* option k of question q, and << >> otherwise.  A radio that was not touched
\* holds its index argument, responses.get(question_key, None).  The choice
\* of the user reaches the run when the radio built by this run is the
\* widget that was clicked: always when the key identifies it, and when the
\* index argument is the one the radio on the page was built with otherwise.
\* A radio built with another index is a new widget, which returns its
\* default, the option at its index: the click is lost.
selected_option(resp, c, q, click) ==
    LET index == Get(resp, question_key(c, q), NoSelection)
    IN  IF /\ click # << >>
           /\ click[1] = q
           /\ (radio_identity = "key" \/ radio_index[q] = index)
        THEN click[2]
        ELSE index

\* if selected_option is not None:
\*     responses[question_key] = question['options'][selected_option]['risk']
record_answers(resp, c, click) ==
    LET answered == {q \in 0 .. (NumQuestions(c) - 1) :
                        selected_option(resp, c, q, click) # NoSelection}
        touched == {question_key(c, q) : q \in answered}
    IN  [key \in (DOMAIN resp) \cup touched |->
            IF key \in touched
            THEN OptionRisk(c, key[2], selected_option(resp, c, key[2], click))
            ELSE resp[key]]

\* Mutant: any() instead of all().
current_questions_answered_Any(resp, c) ==
    \E q \in 0 .. (NumQuestions(c) - 1) : question_key(c, q) \in DOMAIN resp

\* Mutant: the whole-schema test of the last step is used at every step.
current_questions_answered_WholeSchema(resp, c) ==
    Len_(resp) = total_questions

\* Mutant: only the first question of the category is tested.
current_questions_answered_First(resp, c) == question_key(c, 0) \in DOMAIN resp

\* all(f"{current_category}_{q_idx}" in responses for q_idx in range(len(questions)))
current_questions_answered(resp, c) ==
    \A q \in 0 .. (NumQuestions(c) - 1) : question_key(c, q) \in DOMAIN resp

\* Mutant: off by one in the count.
all_questions_answered_OffByOne(resp) == Len_(resp) >= total_questions - 1

\* Mutant: one recorded answer is enough.
all_questions_answered_NonEmpty(resp) == Len_(resp) > 0

\* len(st.session_state.responses) == total_questions
all_questions_answered(resp) == Len_(resp) = total_questions

\* Mutant: the form is displayed whatever assessment_complete is.
form_displayed_Always == TRUE

\* main: if not st.session_state.assessment_complete: display_assessment_form()
form_displayed == ~assessment_complete

\* Mutant: going back requires the current category to be answered.
previous_rendered_IfAnswered(resp, c) == c > 0 /\ current_questions_answered(resp, c)

\* Mutant: the Previous button is rendered on every category.
previous_rendered_Always(resp, c) == TRUE

\* if st.session_state.current_category > 0: the Previous button is rendered
previous_rendered(resp, c) == c > 0

\* Mutant: the last two categories both count as the last one.
before_last_OffByOne(c) == c < NumCategories - 2

\* if st.session_state.current_category < len(categories) - 1
before_last(c) == c < NumCategories - 1

(***************************************************************************)
(* User events                                                             *)
(***************************************************************************)

Init ==
    /\ initialize_session_state
    /\ view = NoView
    /\ event = "init"
    /\ input = << >>
    /\ radio_identity \in RadioIdentities
    /\ radio_index = radio_indexes(EmptyResponses, 0)

\* Mutant: the answer is recorded under the first category.
SelectOption_FirstCategory(q, k) ==
    /\ form_displayed
    /\ q \in 0 .. (NumQuestions(current_category) - 1)
    /\ k # Get(responses, question_key(current_category, q), NoSelection)
    /\ responses' = record_answers(responses, 0, <<q, k>>)
    /\ UNCHANGED <<current_category, assessment_complete, view>>
    /\ event' = "select"
    /\ input' = <<q, k, Get(responses, question_key(current_category, q), NoSelection)>>
    /\ radio_index' = radio_indexes(responses, current_category)
    /\ UNCHANGED radio_identity

\* The user chooses option k of question q of the displayed category, an
\* option other than the one the radio shows (the option at the stored
\* answer, none for an unanswered question): a click on the option a radio
\* already shows changes no widget value, so no run follows it and the page
\* stays as built.
SelectOption(q, k) ==
    /\ form_displayed
    /\ q \in 0 .. (NumQuestions(current_category) - 1)
    /\ k # Get(responses, question_key(current_category, q), NoSelection)
    /\ responses' = record_answers(responses, current_category, <<q, k>>)
    /\ UNCHANGED <<current_category, assessment_complete, view>>
    /\ event' = "select"
    /\ input' = <<q, k, Get(responses, question_key(current_category, q), NoSelection)>>
    /\ radio_index' = radio_indexes(responses, current_category)
    /\ UNCHANGED radio_identity

\* Mutant: going back discards the answers of the category that is left.
Previous_ForgetsCurrent ==
    /\ form_displayed
    /\ LET r1 == record_answers(responses, current_category, << >>)
           r2 == record_answers(r1, current_category - 1, << >>)
       IN  /\ previous_rendered(r1, current_category)
           /\ current_category' = current_category - 1
           /\ radio_index' = radio_indexes(r1, current_category - 1)
           /\ responses' = [key \in {k \in DOMAIN r2 : k[1] # current_category} |-> r2[key]]
    /\ UNCHANGED <<assessment_complete, view, radio_identity>>
    /\ event' = "previous"
    /\ input' = << >>

\* The user clicks "<- Previous": the run records the radios, decrements the
\* index and reruns, which displays (and records) the previous category.
Previous ==
    /\ form_displayed
    /\ LET r1 == record_answers(responses, current_category, << >>)
       IN  /\ previous_rendered(r1, current_category)
           /\ current_category' = current_category - 1
           /\ radio_index' = radio_indexes(r1, current_category - 1)
           /\ responses' = record_answers(r1, current_category - 1, << >>)
    /\ UNCHANGED <<assessment_complete, view, radio_identity>>
    /\ event' = "previous"
    /\ input' = << >>

\* The Previous button is not rendered: nothing to click.
PreviousUnavailable ==
    /\ form_displayed
    /\ ~previous_rendered(record_answers(responses, current_category, << >>),
                          current_category)
    /\ UNCHANGED <<responses, current_category, assessment_complete, view,
                   radio_identity, radio_index>>
    /\ event' = "previous_unavailable"
    /\ input' = << >>

\* The user clicks "Next ->" where the page shows it enabled: responses is
\* the dictionary at the end of the run that rendered the page, from which
\* that run computed the button's disabled flag. The handler increments
\* current_category.
NextClick ==
    /\ form_displayed
    /\ before_last(current_category)
    /\ current_questions_answered(responses, current_category)
    /\ current_category' = current_category + 1

\* The click on "Next ->" and the rerun it triggers, which displays (and
\* records) the next category.
Next_ ==
    /\ NextClick
    /\ \E r1 \in {record_answers(responses, current_category, << >>)} :
           /\ radio_index' = radio_indexes(r1, current_category + 1)
           /\ responses' = record_answers(r1, current_category + 1, << >>)
    /\ UNCHANGED <<assessment_complete, view, radio_identity>>
    /\ event' = "next"
    /\ input' = << >>

\* "Next ->" is rendered with disabled=True: a click has no effect.
NextDisabled ==
    /\ form_displayed
    /\ before_last(current_category)
    /\ ~current_questions_answered(
           record_answers(responses, current_category, << >>), current_category)
    /\ UNCHANGED <<responses, current_category, assessment_complete, view,
                   radio_identity, radio_index>>
    /\ event' = "next_disabled"
    /\ input' = << >>

\* The user clicks "View Results" on the last category, where the page
\* shows it enabled (the run that rendered the page computed the disabled
\* flag from responses): the handler sets assessment_complete.
ViewResultsClick ==
    /\ form_displayed
    /\ ~before_last(current_category)
    /\ all_questions_answered(responses)
    /\ assessment_complete' = TRUE

\* The click on "View Results" and the rerun it triggers, which displays the
\* results.
ViewResults ==
    /\ ViewResultsClick
    /\ LET r1 == record_answers(responses, current_category, << >>)
       IN  /\ responses' = r1
           /\ view' = [risk |-> display_results(r1),
                       readiness |-> rai_display_results(r1)]
    /\ UNCHANGED <<current_category, radio_identity>>
    /\ radio_index' = radio_indexes(EmptyResponses, 0)
    /\ event' = "view_results"
    /\ input' = << >>

\* "View Results" is rendered with disabled=True.
ViewResultsDisabled ==
    /\ form_displayed
    /\ ~before_last(current_category)
    /\ ~all_questions_answered(record_answers(responses, current_category, << >>))
    /\ UNCHANGED <<responses, current_category, assessment_complete, view,
                   radio_identity, radio_index>>
    /\ event' = "view_results_disabled"
    /\ input' = << >>

\* Mutant: the reset forgets the recorded answers.
Restart_KeepsResponses ==
    /\ ~form_displayed
    /\ calculate_risk_level(responses) # None
    /\ current_category' = 0
    /\ assessment_complete' = FALSE
    /\ UNCHANGED responses
    /\ view' = NoView
    /\ event' = "restart"
    /\ input' = << >>
    /\ radio_index' = radio_indexes(EmptyResponses, 0)
    /\ UNCHANGED radio_identity

\* The user clicks "Take Assessment Again" in the results view: every key of
\* the session state is deleted and the rerun initialises it again.
Restart ==
    /\ ~form_displayed
    /\ calculate_risk_level(responses) # None
    /\ responses' = EmptyResponses
    /\ current_category' = 0
    /\ assessment_complete' = FALSE
    /\ view' = NoView
    /\ event' = "restart"
    /\ input' = << >>
    /\ radio_index' = radio_indexes(EmptyResponses, 0)
    /\ UNCHANGED radio_identity

Next ==
    \/ \E q \in Questions, k \in Options : SelectOption(q, k)
    \/ Previous
    \/ PreviousUnavailable
    \/ Next_
    \/ NextDisabled
    \/ ViewResults
    \/ ViewResultsDisabled
    \/ Restart

Spec == Init /\ [][Next]_vars

\* The user answers a question of the displayed category that has no answer
\* yet.
AnswerUnanswered ==
    \E q \in Questions, k \in Options :
        /\ question_key(current_category, q) \notin DOMAIN responses
        /\ SelectOption(q, k)

\* A user who answers what is unanswered and clicks Next / View Results
\* when they are enabled. A step that raises current_category is a Next_
\* step and a step that sets assessment_complete is a ViewResults step, so
\* the fairness on the clicks is fairness on Next_ and ViewResults.
SpecProgress ==
    /\ Init
    /\ [][Next]_vars
    /\ WF_vars(AnswerUnanswered)
    /\ WF_<<current_category>>(NextClick)
    /\ WF_<<assessment_complete>>(ViewResultsClick)

(***************************************************************************)
(* The scoring functions on arbitrary response sets                        *)
(***************************************************************************)

ValidKeys == {question_key(c, q) : c \in Categories, q \in Questions}

RiskWeights == {0, 1, 2}

\* Every dict whose keys are keys of the schema and whose values are weights.
ResponseSets == UNION {[D -> RiskWeights] : D \in SUBSET ValidKeys}

ScoreInit ==
    /\ responses \in ResponseSets
    /\ current_category = 0
    /\ assessment_complete = FALSE
    /\ view = NoView
    /\ event = "init"
    /\ input = << >>
    /\ radio_identity \in RadioIdentities
    /\ radio_index = radio_indexes(EmptyResponses, 0)

\* The risk variant displays the results of the response set: for the empty
\* set the error message only, no chart.
ScoreRisk ==
    /\ view = NoView
    /\ view' = [risk |-> display_results(responses), readiness |-> NotShown]
    /\ event' = "score_risk"
    /\ input' = << >>
    /\ UNCHANGED <<responses, current_category, assessment_complete,
                   radio_identity, radio_index>>

\* The readiness variant displays the results of the response set: for the
\* empty set the error message only, no chart.
ScoreReadiness ==
    /\ view = NoView
    /\ view' = [risk |-> NotShown, readiness |-> rai_display_results(responses)]
    /\ event' = "score_readiness"
    /\ input' = << >>
    /\ UNCHANGED <<responses, current_category, assessment_complete,
                   radio_identity, radio_index>>

ScoreNext == ScoreRisk \/ ScoreReadiness

SpecScore == ScoreInit /\ [][ScoreNext]_vars

(***************************************************************************)
(* The classifiers on arbitrary percentages                                *)
(***************************************************************************)

\* Percentages are drawn in steps of one hundredth, from 0 to this many
\* hundredths.
MaxHundredths == 10000

Percentages == {Rat(h, 100) : h \in 0 .. MaxHundredths}

ClassifyInit ==
    /\ responses = EmptyResponses
    /\ current_category = 0
    /\ assessment_complete = FALSE
    /\ view = NoView
    /\ event = "init"
    /\ input \in Percentages
    /\ radio_identity \in RadioIdentities
    /\ radio_index = radio_indexes(EmptyResponses, 0)

\* The risk variant classifies the percentage.
ClassifyRisk ==
    /\ event = "init"
    /\ view' = [risk |-> [result |-> classify_risk(input)], readiness |-> NotShown]
    /\ event' = "classify_risk"
    /\ UNCHANGED <<responses, current_category, assessment_complete, input,
                   radio_identity, radio_index>>

\* The readiness variant classifies the percentage.
ClassifyReadiness ==
    /\ event = "init"
    /\ view' = [risk |-> NotShown, readiness |-> [result |-> classify_readiness(input)]]
    /\ event' = "classify_readiness"
    /\ UNCHANGED <<responses, current_category, assessment_complete, input,
                   radio_identity, radio_index>>

ClassifyNext == ClassifyRisk \/ ClassifyReadiness

SpecClassify == ClassifyInit /\ [][ClassifyNext]_vars

(***************************************************************************)
(* Vocabulary of the properties, stated on the state itself                *)
(***************************************************************************)

LastIndex == NumCategories - 1

Answered(c, q) == <<c, q>> \in DOMAIN responses

CategoryComplete(c) == \A q \in Questions : Answered(c, q)

SchemaComplete == \A c \in Categories : CategoryComplete(c)

InProgress(i) == ~assessment_complete /\ current_category = i

SessionUnchanged ==
    /\ responses' = responses
    /\ current_category' = current_category
    /\ assessment_complete' = assessment_complete

(***************************************************************************)
(* Navigation                                                              *)
(***************************************************************************)

\* C1: in InProgress(i), i before the last index, with a question of
\* category i unanswered, Next is not taken: the only outcome of the Next
\* control is the rejection, which leaves responses, current_category and
\* assessment_complete unchanged.
C1_NextRejectedWhenIncomplete ==
    [][ (\E i \in 0 .. (LastIndex - 1) : InProgress(i) /\ ~CategoryComplete(i))
            => /\ event' # "next"
               /\ event' = "next_disabled" => SessionUnchanged ]_vars

C1_Witness ==
    /\ event = "next_disabled"
    /\ ~assessment_complete
    /\ current_category < LastIndex
    /\ Answered(current_category, 0)
    /\ ~Answered(current_category, 1)

\* C2: in InProgress(i), i before the last index, with every question of
\* category i answered, Next is never rejected and moves to InProgress(i+1),
\* exactly one step, whatever the other categories hold, leaving responses
\* and assessment_complete unchanged.
C2_NextAdvancesOneStep ==
    [][ (\E i \in 0 .. (LastIndex - 1) : InProgress(i) /\ CategoryComplete(i))
            => /\ event' # "next_disabled"
               /\ event' = "next" =>
                     /\ current_category' = current_category + 1
                     /\ responses' = responses
                     /\ assessment_complete' = assessment_complete ]_vars

C2_Witness ==
    /\ event = "next"
    /\ ~assessment_complete
    /\ current_category >= 1
    /\ CategoryComplete(current_category - 1)
    /\ ~CategoryComplete(current_category)

\* C3: from InProgress(last index), View Results sets assessment_complete
\* exactly when every question of every category has a recorded response;
\* with an answer missing the control is rejected and the session state is
\* unchanged.
C3_TerminalGate ==
    [][ InProgress(LastIndex)
            => /\ assessment_complete' => (event' = "view_results" /\ SchemaComplete)
               /\ event' = "view_results" =>
                     /\ assessment_complete'
                     /\ responses' = responses
                     /\ current_category' = current_category
               /\ SchemaComplete => event' # "view_results_disabled"
               /\ ~SchemaComplete => event' # "view_results"
               /\ event' = "view_results_disabled" => SessionUnchanged ]_vars

C3_Witness ==
    /\ event = "view_results_disabled"
    /\ InProgress(LastIndex)
    /\ \A c \in 0 .. (LastIndex - 1) : CategoryComplete(c)
    /\ Answered(LastIndex, 0)
    /\ ~Answered(LastIndex, 1)

\* C4: Previous is available in InProgress(i) exactly when i > 0, moves to
\* InProgress(i-1) without any completeness test and leaves responses and
\* assessment_complete unchanged; in InProgress(0) it is not available and
\* the state is unchanged.
C4_Previous ==
    [][ ~assessment_complete
            => /\ current_category = 0 =>
                     /\ event' # "previous"
                     /\ event' = "previous_unavailable" => SessionUnchanged
               /\ current_category > 0 =>
                     /\ event' # "previous_unavailable"
                     /\ event' = "previous" =>
                           /\ current_category' = current_category - 1
                           /\ responses' = responses
                           /\ assessment_complete' = assessment_complete ]_vars

C4_Witness ==
    /\ event = "previous"
    /\ ~assessment_complete
    /\ current_category < LastIndex
    /\ ~CategoryComplete(current_category + 1)

\* C5 as stated: Restart can be taken from every state, and leads to the
\* initial session state.
C5_RestartFromAnyState ==
    /\ ENABLED Restart
    /\ event = "restart" => initialize_session_state

\* C5 amended: Restart is taken from Complete only (the control is part of
\* the results view), and after it responses is empty, current_category is 0
\* and assessment_complete is false.
C5_RestartFromComplete ==
    [][ /\ event' = "restart" =>
              /\ assessment_complete
              /\ responses' = EmptyResponses
              /\ current_category' = 0
              /\ assessment_complete' = FALSE
        /\ ~assessment_complete => event' # "restart" ]_vars

C5_Witness ==
    /\ event = "restart"
    /\ DOMAIN responses = {}
    /\ current_category = 0
    /\ ~assessment_complete

\* C6: once assessment_complete is true, the only step that changes the
\* state is Restart: no answer is recorded and neither Next nor Previous
\* acts.
C6_CompleteIsTerminal ==
    [][ assessment_complete
            => /\ event' = "restart"
               /\ ~assessment_complete' ]_vars

C6_Witness ==
    /\ assessment_complete
    /\ event = "view_results"
    /\ current_category = LastIndex
    /\ SchemaComplete

(***************************************************************************)
(* Scoring                                                                 *)
(***************************************************************************)

\* The weight recorded for a key, 0 when there is none.
WeightAt(key) == IF key \in DOMAIN responses THEN responses[key] ELSE 0

RECURSIVE WeightSumOver(_)
WeightSumOver(K) ==
    IF K = {} THEN 0
    ELSE LET key == CHOOSE x \in K : TRUE
         IN  WeightAt(key) + WeightSumOver(K \ {key})

\* Sum of the recorded weights and number of recorded answers.
WeightSum == WeightSumOver(ValidKeys)

AnsweredCount == Cardinality({key \in ValidKeys : key \in DOMAIN responses})

IsPercentage(x) == x.den > 0 /\ RatLeq(RatInt(0), x) /\ RatLeq(x, RatInt(100))

\* C7: for every non-empty response set the risk percentage is
\* (sum of the recorded weights) / (number of recorded answers * 2) * 100;
\* all answers 0 give 0 and all answers 2 give 100.
C7_RiskPercentage ==
    (event = "score_risk" /\ DOMAIN responses # {})
        => LET p == view.risk.result.percentage
           IN  /\ p.den > 0
               /\ RatEq(p, Rat(WeightSum * 100, AnsweredCount * 2))
               /\ (\A key \in DOMAIN responses : responses[key] = 0) => RatEq(p, RatInt(0))
               /\ (\A key \in DOMAIN responses : responses[key] = 2) => RatEq(p, RatInt(100))

\* The weights [0,1,2,1] on two categories of a larger schema give 50.
C7_Witness ==
    /\ event = "score_risk"
    /\ DOMAIN responses = {<<0, 0>>, <<0, 1>>, <<1, 0>>, <<1, 1>>}
    /\ responses[<<0, 0>>] = 0
    /\ responses[<<0, 1>>] = 1
    /\ responses[<<1, 0>>] = 2
    /\ responses[<<1, 1>>] = 1
    /\ RatEq(view.risk.result.percentage, RatInt(50))

\* C8: for every non-empty response set the readiness percentage is
\* ((number of recorded answers * 2) - sum of the recorded weights)
\* / (number of recorded answers * 2) * 100; all answers 0 give 100 and all
\* answers 2 give 0.
C8_ReadinessPercentage ==
    (event = "score_readiness" /\ DOMAIN responses # {})
        => LET p == view.readiness.result.percentage
           IN  /\ p.den > 0
               /\ RatEq(p, Rat((AnsweredCount * 2 - WeightSum) * 100, AnsweredCount * 2))
               /\ (\A key \in DOMAIN responses : responses[key] = 0) => RatEq(p, RatInt(100))
               /\ (\A key \in DOMAIN responses : responses[key] = 2) => RatEq(p, RatInt(0))

\* Three answers 0, 1, 2 of a larger schema give 50.
C8_Witness ==
    /\ event = "score_readiness"
    /\ DOMAIN responses = {<<0, 0>>, <<0, 1>>, <<1, 0>>}
    /\ responses[<<0, 0>>] = 0
    /\ responses[<<0, 1>>] = 1
    /\ responses[<<1, 0>>] = 2
    /\ RatEq(view.readiness.result.percentage, RatInt(50))

\* C9: in both variants the overall score is None exactly for the empty
\* response set; for every other response set it is a level with a
\* percentage whose denominator is not zero.
C9_NoResponses ==
    /\ event = "score_risk" =>
          IF DOMAIN responses = {}
          THEN view.risk.result = None
          ELSE /\ view.risk.result.level \in {"LOW", "MEDIUM", "HIGH"}
               /\ view.risk.result.percentage.den > 0
    /\ event = "score_readiness" =>
          IF DOMAIN responses = {}
          THEN view.readiness.result = None
          ELSE /\ view.readiness.result.level \in {"ADVANCED", "DEVELOPING", "BASIC"}
               /\ view.readiness.result.percentage.den > 0

C9_Witness ==
    /\ event = "score_risk"
    /\ DOMAIN responses = {}
    /\ view.risk.result = None

\* C10: for every response set with valid keys and weights in {0,1,2},
\* every category average lies in [0,2] and the overall percentage of either
\* variant, when defined, lies in [0,100].
C10_ScoreRanges ==
    /\ event = "score_risk" =>
          /\ \A n \in 1 .. Len(view.risk.category_data) :
                LET a == view.risk.category_data[n].risk_score
                    b == view.risk.radar[n].category_risk
                IN  /\ a.den > 0 /\ RatLeq(RatInt(0), a) /\ RatLeq(a, RatInt(2))
                    /\ b.den > 0 /\ RatLeq(RatInt(0), b) /\ RatLeq(b, RatInt(2))
          /\ DOMAIN responses # {} => Len(view.risk.category_data) = NumCategories
          /\ view.risk.result # None => IsPercentage(view.risk.result.percentage)
    /\ event = "score_readiness" =>
          /\ \A n \in 1 .. Len(view.readiness.radar) :
                LET b == view.readiness.radar[n].category_risk
                IN  b.den > 0 /\ RatLeq(RatInt(0), b) /\ RatLeq(b, RatInt(2))
          /\ DOMAIN responses # {} => Len(view.readiness.radar) = NumCategories
          /\ view.readiness.result # None => IsPercentage(view.readiness.result.percentage)

\* A partially answered set that reaches both ends: a category averaging 2,
\* a category averaging 0, and an overall risk of 100.
C10_Witness ==
    /\ event = "score_risk"
    /\ DOMAIN responses = {<<0, 0>>, <<0, 1>>}
    /\ RatEq(view.risk.category_data[1].risk_score, RatInt(2))
    /\ RatEq(view.risk.category_data[2].risk_score, RatInt(0))
    /\ RatEq(view.risk.result.percentage, RatInt(100))

(***************************************************************************)
(* Classifier thresholds                                                   *)
(***************************************************************************)

Hundredths(h) == Rat(h, 100)

\* C11: a risk percentage p is LOW iff p <= 25, MEDIUM iff 25 < p <= 60 and
\* HIGH iff p > 60; 25.00 is LOW, 25.01 MEDIUM, 60.00 MEDIUM, 60.01 HIGH.
C11_RiskThresholds ==
    event = "classify_risk"
        => LET p == input
               l == view.risk.result.level
           IN  /\ l \in {"LOW", "MEDIUM", "HIGH"}
               /\ l = "LOW" <=> p.num <= 25 * p.den
               /\ l = "MEDIUM" <=> (p.num > 25 * p.den /\ p.num <= 60 * p.den)
               /\ l = "HIGH" <=> p.num > 60 * p.den
               /\ p = Hundredths(2500) => l = "LOW"
               /\ p = Hundredths(2501) => l = "MEDIUM"
               /\ p = Hundredths(6000) => l = "MEDIUM"
               /\ p = Hundredths(6001) => l = "HIGH"

C11_Witness ==
    /\ event = "classify_risk"
    /\ input = Hundredths(2500)
    /\ view.risk.result.level = "LOW"

\* C12: a readiness percentage p is ADVANCED iff p >= 75, DEVELOPING iff
\* 50 <= p < 75 and BASIC iff p < 50; 75.00 is ADVANCED, 74.99 DEVELOPING,
\* 50.00 DEVELOPING, 49.99 BASIC.
C12_ReadinessThresholds ==
    event = "classify_readiness"
        => LET p == input
               l == view.readiness.result.level
           IN  /\ l \in {"ADVANCED", "DEVELOPING", "BASIC"}
               /\ l = "ADVANCED" <=> p.num >= 75 * p.den
               /\ l = "DEVELOPING" <=> (p.num >= 50 * p.den /\ p.num < 75 * p.den)
               /\ l = "BASIC" <=> p.num < 50 * p.den
               /\ p = Hundredths(7500) => l = "ADVANCED"
               /\ p = Hundredths(7499) => l = "DEVELOPING"
               /\ p = Hundredths(5000) => l = "DEVELOPING"
               /\ p = Hundredths(4999) => l = "BASIC"

C12_Witness ==
    /\ event = "classify_readiness"
    /\ input = Hundredths(5000)
    /\ view.readiness.result.level = "DEVELOPING"

(***************************************************************************)
(* Category scores                                                         *)
(***************************************************************************)

\* Sum of the recorded weights of the questions of category c, an unanswered
\* question counting 0.
CategoryWeightSum(c) == WeightSumOver({<<c, q>> : q \in Questions})

\* C13: for every category and every response set whose results are
\* displayed (every non-empty one), the category average is the sum of the
\* recorded weights of its questions (0 for an unanswered one) divided by
\* the number of questions of the category; the readiness score of the
\* category is that average inverted.
C13_CategoryAverageDefaultZero ==
    /\ (event = "score_risk" /\ DOMAIN responses # {}) =>
          \A n \in 1 .. NumCategories :
              LET expected == Rat(CategoryWeightSum(n - 1), QuestionsPerCategory)
                  a == view.risk.category_data[n].risk_score
                  b == view.risk.radar[n].category_risk
              IN  /\ a.den > 0 /\ RatEq(a, expected)
                  /\ b.den > 0 /\ RatEq(b, expected)
    /\ (event = "score_readiness" /\ DOMAIN responses # {}) =>
          \A n \in 1 .. NumCategories :
              LET expected == Rat(CategoryWeightSum(n - 1), QuestionsPerCategory)
                  b == view.readiness.radar[n].category_risk
                  r == view.readiness.category_data[n].readiness_score
              IN  /\ b.den > 0 /\ RatEq(b, expected)
                  /\ r.den > 0
                  /\ RatEq(r, Rat((2 * QuestionsPerCategory - CategoryWeightSum(n - 1)) * 100,
                                  2 * QuestionsPerCategory))

\* One answer of weight 2 in a category of two questions averages 1, not 2.
C13_Witness ==
    /\ event = "score_risk"
    /\ DOMAIN responses = {<<0, 0>>}
    /\ responses[<<0, 0>>] = 2
    /\ RatEq(view.risk.category_data[1].risk_score, RatInt(1))

\* C14: in the risk variant the level of every category is the level of the
\* risk classifier (LOW iff <= 25, MEDIUM iff <= 60, HIGH otherwise) for the
\* category's risk percentage, category average / 2 * 100.
C14_CategoryLevelByClassifier ==
    (event \in {"score_risk", "view_results"} /\ DOMAIN responses # {}) =>
        \A n \in 1 .. NumCategories :
            LET a == view.risk.category_data[n].risk_score
                pct == Rat(a.num * 100, a.den * 2)
                l == view.risk.category_data[n].level
            IN  /\ l = "Low" <=> pct.num <= 25 * pct.den
                /\ l = "Medium" <=> (pct.num > 25 * pct.den /\ pct.num <= 60 * pct.den)
                /\ l = "High" <=> pct.num > 60 * pct.den

(***************************************************************************)
(* Recommendations of the results view                                     *)
(***************************************************************************)

\* C15: in the results view, when every category is at the best bucket (Low
\* in the risk variant, Advanced in the readiness variant), no guidance is
\* shown: no recommendation and no priority text in the risk variant, no
\* immediate action, no recommended improvement and no roadmap in the
\* readiness variant.
C15_NoGuidanceWhenAllBest ==
    event = "view_results" =>
        /\ (\A n \in 1 .. NumCategories : view.risk.category_data[n].level = "Low")
              => /\ view.risk.recommendations = {}
                 /\ view.risk.priority = ""
        /\ (\A n \in 1 .. NumCategories : view.readiness.category_data[n].level = "Advanced")
              => /\ view.readiness.immediate = {}
                 /\ view.readiness.recommended = {}
                 /\ ~view.readiness.roadmap

\* Every category at the best bucket although not every answer is the best
\* one.
C15_Witness ==
    /\ event = "view_results"
    /\ \A n \in 1 .. NumCategories :
          /\ view.risk.category_data[n].level = "Low"
          /\ view.readiness.category_data[n].level = "Advanced"
          /\ CategoryWeightSum(n - 1) = 1
    /\ view.risk.recommendations = {}
    /\ view.readiness.recommended = {}

\* C16: in the results view a category has an entry flagged "immediate"
\* exactly when it is at the worst bucket, an entry flagged "recommended"
\* exactly when it is at the middle bucket, and no entry at the best bucket.
C16_SelectionRule ==
    event = "view_results" =>
        \A n \in 1 .. NumCategories :
            LET l == view.readiness.category_data[n].level
            IN  /\ n \in view.readiness.immediate <=> l = "Basic"
                /\ n \in view.readiness.recommended <=> l = "Developing"
                /\ l = "Advanced" =>
                      n \notin (view.readiness.immediate \cup view.readiness.recommended)

(***************************************************************************)
(* Recording answers                                                       *)
(***************************************************************************)

\* The key an answer event writes, and the weight of the option it chooses.
SelectedKey(in) == <<current_category, in[1]>>

SelectedWeight(in) == OptionRisks[in[2] + 1]

\* C17: recording the same answer (same question, same option) twice in a
\* row leaves the response set and the rest of the session state as they
\* were after the first recording.
C17_RecordIdempotent ==
    [][ (/\ event = "select"
         /\ event' = "select"
         /\ input'[1] = input[1]
         /\ input'[2] = input[2])
            => SessionUnchanged ]_vars

\* C18: recording an answer for a question and then another answer for the
\* same question leaves one entry for the key, holding the second weight,
\* with the same set of answered keys and every other value unchanged.
C18_Overwrite ==
    [][ (/\ event = "select"
         /\ event' = "select"
         /\ input'[1] = input[1])
            => LET key == SelectedKey(input)
               IN  /\ key \in DOMAIN responses
                   /\ DOMAIN responses' = DOMAIN responses
                   /\ Cardinality(DOMAIN responses') = Cardinality(DOMAIN responses)
                   /\ responses'[key] = SelectedWeight(input')
                   /\ \A other \in (DOMAIN responses) \ {key} :
                         responses'[other] = responses[other] ]_vars

\* C19: in every reachable state every key of responses is a (category
\* index, question index) pair of the schema and every stored value is a
\* weight in {0, 1, 2}; hence the number of recorded answers is at most the
\* number of questions of the schema.
C19_ResponsesWellFormed ==
    /\ \A key \in DOMAIN responses :
          /\ key \in {<<c, q>> : c \in Categories, q \in Questions}
          /\ responses[key] \in {0, 1, 2}
    /\ Cardinality(DOMAIN responses) <= NumCategories * QuestionsPerCategory

\* Every question answered, the largest weight among the answers.
C19_Witness ==
    /\ ~assessment_complete
    /\ event = "select"
    /\ SchemaComplete
    /\ Cardinality(DOMAIN responses) = NumCategories * QuestionsPerCategory
    /\ \E key \in DOMAIN responses : responses[key] = 2
    /\ \E key \in DOMAIN responses : responses[key] = 0

\* C21: a step that is not a restart never removes a recorded key: the set
\* of answered keys only grows, the answered count does not decrease and a
\* complete category stays complete.
C21_NoDeletionExceptRestart ==
    [][ event' # "restart"
            => /\ DOMAIN responses \subseteq DOMAIN responses'
               /\ Cardinality(DOMAIN responses') >= Cardinality(DOMAIN responses)
               /\ \A c \in Categories :
                     CategoryComplete(c)
                         => \A q \in Questions : <<c, q>> \in DOMAIN responses' ]_vars

\* Previous has been taken and the category that was left is still complete.
C21_Witness ==
    /\ event = "previous"
    /\ current_category + 1 <= LastIndex
    /\ CategoryComplete(current_category + 1)
    /\ AnsweredCount >= 2 * QuestionsPerCategory

\* C22: in every reachable state the category index is an integer of
\* 0 .. NumCategories - 1.
C22_IndexRange ==
    /\ current_category \in Int
    /\ 0 <= current_category
    /\ current_category < NumCategories

\* The index has been to the last category and Previous has brought it back
\* to 0, where it stops.
C22_Witness ==
    /\ event = "previous"
    /\ current_category = 0
    /\ SchemaComplete

\* C23: every category before the current one is complete; hence on the last
\* category the test of the current category and the test of the whole
\* schema agree.
C23_PrefixComplete ==
    /\ \A c \in Categories : c < current_category => CategoryComplete(c)
    /\ current_category = LastIndex
          => (CategoryComplete(LastIndex)
                <=> Cardinality(DOMAIN responses) = NumCategories * QuestionsPerCategory)

\* Back from a later category that is left incomplete.
C23_Witness ==
    /\ event = "previous"
    /\ current_category = LastIndex - 1
    /\ current_category > 0
    /\ ~CategoryComplete(LastIndex)
    /\ \E q \in Questions : Answered(LastIndex, q)

\* C24: when the assessment is complete every question has a recorded
\* answer, the index is the last one, the overall result of either variant
\* is defined and every slot read by the category averages is answered.
C24_CompleteImpliesAllAnswered ==
    assessment_complete
        => /\ SchemaComplete
           /\ AnsweredCount = NumCategories * QuestionsPerCategory
           /\ current_category = LastIndex
           /\ view.risk.result.level \in {"LOW", "MEDIUM", "HIGH"}
           /\ view.readiness.result.level \in {"ADVANCED", "DEVELOPING", "BASIC"}
           /\ \A c \in Categories : \A j \in 0 .. (ChartQuestions - 1) :
                 <<c, j>> \in DOMAIN responses

C24_Witness ==
    /\ assessment_complete
    /\ event = "view_results"
    /\ current_category = LastIndex
    /\ view.risk.result.level = "MEDIUM"
    /\ view.readiness.result.level = "DEVELOPING"

\* C25: an answer event changes at most the key of the chosen question of
\* the current category; every other answer, the category index and
\* assessment_complete are left as they were.
C25_RecordFrame ==
    [][ event' = "select"
            => LET key == <<current_category, input'[1]>>
               IN  /\ ~assessment_complete
                   /\ key \in DOMAIN responses'
                   /\ DOMAIN responses' = DOMAIN responses \cup {key}
                   /\ \A other \in (DOMAIN responses) \ {key} :
                         responses'[other] = responses[other]
                   /\ current_category' = current_category
                   /\ assessment_complete' = assessment_complete ]_vars

\* A first answer in a later category, the earlier ones being answered.
C25_Witness ==
    /\ event = "select"
    /\ current_category > 0
    /\ input[3] = NoSelection
    /\ ~CategoryComplete(current_category)
    /\ CategoryComplete(0)

\* C26: displaying a category again by Previous or Next, with no new
\* selection, leaves the responses as they were: the radio is pre-selected at
\* the stored weight and the option at that index carries that weight.
C26_RevisitRoundTrip ==
    [][ event' \in {"previous", "next"}
            => /\ responses' = responses
               /\ \A key \in DOMAIN responses' :
                     key[1] = current_category'
                         => OptionRisk(key[1], key[2], responses'[key]) = responses'[key] ]_vars

\* Next has displayed a category that was already answered.
C26_Witness ==
    /\ event = "next"
    /\ CategoryComplete(current_category)
    /\ responses[<<current_category, 0>>] = 2
    /\ responses[<<current_category, 1>>] = 0

(***************************************************************************)
(* Arithmetic of the properties on percentages                             *)
(***************************************************************************)

RatAdd(a, b) == Rat(a.num * b.den + b.num * a.den, a.den * b.den)

RECURSIVE RatSumSeq(_)
RatSumSeq(s) == IF s = << >> THEN RatInt(0) ELSE RatAdd(Head(s), RatSumSeq(Tail(s)))

\* The arithmetic mean of a non-empty sequence of rationals.
RatMean(s) == LET t == RatSumSeq(s) IN Rat(t.num, t.den * Len(s))

\* categoryAverage / 2 * 100
CategoryPercentage(a) == Rat(a.num * 100, a.den * 2)

RiskRank(level) ==
    CASE level = "LOW" -> 0
      [] level = "MEDIUM" -> 1
      [] level = "HIGH" -> 2

ReadinessRank(level) ==
    CASE level = "BASIC" -> 0
      [] level = "DEVELOPING" -> 1
      [] level = "ADVANCED" -> 2

\* sum(p) / len(p) in Python floats for a sequence p of percentages that are
\* whole numbers: the sum is exact, the division is rounded.
FloatMean(s) ==
    true_divide(SumSeq([n \in 1 .. Len(s) |-> s[n].num \div s[n].den]), Len(s))

\* Two floats that are equal or next to each other.
WithinOneUlp(x, y) ==
    \/ x = y
    \/ rounded(x.e, x.m, TRUE) = y
    \/ rounded(y.e, y.m, TRUE) = x

\* The categories' percentages of the results shown: categoryAverage / 2 *
\* 100 in the risk variant, readiness_score in the readiness variant.
RiskCategoryPercentages ==
    [n \in 1 .. NumCategories |->
        CategoryPercentage(view.risk.category_data[n].risk_score)]

ReadinessCategoryPercentages ==
    [n \in 1 .. NumCategories |-> view.readiness.category_data[n].readiness_score]

\* C27 as stated: whenever the results are shown the overall percentage the
\* code computes is equal to the arithmetic mean of the categories'
\* percentages, in the risk variant and in the readiness variant.
C27_OverallIsMeanOfCategories ==
    assessment_complete
        => /\ risk_percentage_float(responses) = FloatMean(RiskCategoryPercentages)
           /\ readiness_percentage_float(responses)
                  = FloatMean(ReadinessCategoryPercentages)

\* C27 amended: whenever the results are shown the overall percentage is
\* the arithmetic mean of the categories' percentages up to the rounding of
\* the float operations: the exact values of the two expressions are equal,
\* and the float the code computes is the float of the mean or one of its
\* two neighbours.
C27_OverallIsMeanUpToRounding ==
    assessment_complete
        => /\ RatEq(view.risk.result.percentage, RatMean(RiskCategoryPercentages))
           /\ RatEq(view.readiness.result.percentage,
                    RatMean(ReadinessCategoryPercentages))
           /\ WithinOneUlp(risk_percentage_float(responses),
                           FloatMean(RiskCategoryPercentages))
           /\ WithinOneUlp(readiness_percentage_float(responses),
                           FloatMean(ReadinessCategoryPercentages))

\* Results with categories at different levels whose overall risk percentage
\* is not the float of the mean.
C27_Witness ==
    /\ assessment_complete
    /\ event = "view_results"
    /\ view.risk.category_data[1].level = "Low"
    /\ view.risk.category_data[2].level = "High"
    /\ view.readiness.category_data[1].level = "Advanced"
    /\ view.readiness.category_data[2].level = "Basic"
    /\ ~RatEq(view.risk.result.percentage, RatInt(50))
    /\ risk_percentage_float(responses) # FloatMean(RiskCategoryPercentages)

\* C28: in the results of a complete response set, every category Low makes
\* the overall risk level LOW and every tenet Advanced makes the overall
\* readiness level ADVANCED.
C28_BestCategoriesBestOverall ==
    assessment_complete
        => /\ (\A n \in 1 .. NumCategories : view.risk.category_data[n].level = "Low")
                 => view.risk.result.level = "LOW"
           /\ (\A n \in 1 .. NumCategories : view.readiness.category_data[n].level = "Advanced")
                 => view.readiness.result.level = "ADVANCED"

\* Every category at the upper edge of its best bucket: the overall
\* percentages are on the thresholds 25 and 75.
C28_Witness ==
    /\ assessment_complete
    /\ \A n \in 1 .. NumCategories :
          /\ view.risk.category_data[n].level = "Low"
          /\ view.readiness.category_data[n].level = "Advanced"
          /\ RatEq(view.risk.category_data[n].risk_score, Rat(1, 2))
    /\ RatEq(view.risk.result.percentage, RatInt(25))
    /\ RatEq(view.readiness.result.percentage, RatInt(75))
    /\ view.risk.result.level = "LOW"
    /\ view.readiness.result.level = "ADVANCED"

\* C29: raising the weight of one answer of a response set does not lower
\* the risk percentage nor make the risk level less severe, and does not
\* raise the readiness percentage nor the readiness level.
C29_ScoringMonotone ==
    \A key \in DOMAIN responses : \A w \in RiskWeights :
        w > responses[key]
            => LET raised == [responses EXCEPT ![key] = w]
               IN  /\ event = "score_risk"
                        => LET r == calculate_risk_level(raised)
                           IN  /\ RatLeq(view.risk.result.percentage, r.percentage)
                               /\ RiskRank(view.risk.result.level) <= RiskRank(r.level)
                   /\ event = "score_readiness"
                        => LET r == calculate_readiness_level(raised)
                           IN  /\ RatLeq(r.percentage, view.readiness.result.percentage)
                               /\ ReadinessRank(r.level)
                                     <= ReadinessRank(view.readiness.result.level)

\* A response set scored DEVELOPING whose level drops to BASIC when one
\* answer is raised.
C29_Witness ==
    /\ event = "score_readiness"
    /\ view.readiness.result.level = "DEVELOPING"
    /\ \E key \in DOMAIN responses : \E w \in RiskWeights :
          /\ w > responses[key]
          /\ calculate_readiness_level([responses EXCEPT ![key] = w]).level = "BASIC"

\* C30: a session whose user answers the unanswered questions of the
\* displayed category and takes Next / View Results when enabled, and who
\* clicks Previous only finitely often, reaches Complete, from the initial
\* state and from every state reached later (so also after a restart): no
\* in-progress state is a dead end.
C30_Progress ==
    (<>[](event # "previous")) => []<>assessment_complete

\* Complete has been reached, here with the highest overall risk.
C30_Witness ==
    /\ assessment_complete
    /\ AnsweredCount = NumCategories * QuestionsPerCategory
    /\ view.risk.result.level = "HIGH"
    /\ view.readiness.result.level = "BASIC"

====
